---- MODULE Spec2Model ----
(***************************************************************************)
(* A model of the agent scaffolding of module_01 / module_02:              *)
(*   lib/tooling.py   Tool: callable -> parameter schema -> descriptor     *)
(*   lib/llm.py       LLM: tool registry, payload assembly, invoke         *)
(*   lib/messages.py  BaseMessage and its four variants (pydantic models)  *)
(*                                                                         *)
(* Python values are encoded uniformly so that they can be compared:       *)
(*   None is <<"none">>, the text s is <<"str", s>>, a list of opaque      *)
(*   records l is <<"list">> \o l.  A dict, which keeps insertion order,   *)
(*   is a sequence of <<key, value>> pairs with distinct keys.             *)
(***************************************************************************)
EXTENDS Integers, Sequences, FiniteSets, TLC

VARIABLES
    unionTypeIsUnion, \* the interpreter: does get_origin(X | Y) answer typing.Union
    typ,              \* tooling.py: the argument of _infer_json_schema_type
    schema,           \* tooling.py: what the call returned, or the exception it raised
    pcS,              \* "start" before the call, "done" after it
    func,             \* tooling.py: the callable handed to Tool(...)
    tool,             \* tooling.py: the Tool built from it (or the exception raised)
    descriptor,       \* tooling.py: what Tool.dict() returned
    pcT,              \* "start", "built", "exported", "failed"
    tools,            \* llm.py: LLM.tools, the dict from tool name to Tool
    registered,       \* every tool handed to the client so far: the constructor's list,
                      \* then one per register_tool call (history, not program state)
    call,             \* llm.py: the most recent call on the client and what it did
    msg,              \* messages.py: a message object
    built,            \* the same message as its constructor returned it (history)
    msgCall           \* messages.py: the most recent operation on the message

schemaVars == <<unionTypeIsUnion, typ, schema, pcS>>
toolVars == <<func, tool, descriptor, pcT>>
llmVars == <<tools, registered, call>>
msgVars == <<msg, built, msgCall>>
vars == <<schemaVars, toolVars, llmVars, msgVars>>

----------------------------------------------------------------------------
(* Bounds *)

MaxDepth == 2     \* nesting depth of the generic types that are enumerated
MaxParams == 2    \* parameters of an enumerated callable
MaxRegistrations == 3   \* tools handed to one client (constructor list and register_tool)
MaxInputLen == 2  \* length of a list handed to invoke / _convert_input

----------------------------------------------------------------------------
(* Python values *)

PyNone == <<"none">>
PyStr(s) == <<"str", s>>
PyList(l) == <<"list">> \o l

\* bool(v) of a None / str / list value
Truthy(v) == v # PyNone /\ v # PyStr("") /\ v # PyList(<<>>)

\* a or b
PyOr(a, b) == IF Truthy(a) THEN a ELSE b

Range(s) == {s[i] : i \in DOMAIN s}

\* dict: keys in insertion order
DictKeys(d) == [i \in DOMAIN d |-> d[i][1]]
DictValues(d) == [i \in DOMAIN d |-> d[i][2]]
DictHas(d, k) == \E i \in DOMAIN d : d[i][1] = k

\* d[k] = v : an existing key keeps its position, a new key goes last
DictSet(d, k, v) ==
    IF DictHas(d, k)
    THEN [i \in DOMAIN d |-> IF d[i][1] = k THEN <<k, v>> ELSE d[i]]
    ELSE Append(d, <<k, v>>)

\* {key(x): value(x) for x in items}, items a sequence of <<key, value>> pairs
RECURSIVE DictFrom(_)
DictFrom(items) ==
    IF items = <<>> THEN <<>>
    ELSE LET n == Len(items)
         IN  DictSet(DictFrom(SubSeq(items, 1, n - 1)), items[n][1], items[n][2])

----------------------------------------------------------------------------
(* The type annotations a callable can carry (tooling.py reads them with    *)
(* get_origin / get_args).  k is the kind, args the type arguments, vals    *)
(* the values of a Literal.                                                 *)

Ty(k) == [k |-> k, args |-> <<>>, vals |-> <<>>]
Gen(k, args) == [k |-> k, args |-> args, vals |-> <<>>]
Lit(vals) == [k |-> "Literal", args |-> <<>>, vals |-> vals]

Tstr == Ty("str")
Tint == Ty("int")
TNone == Ty("NoneType")

\* str, int, float, bool, datetime.date, datetime.datetime
Primitives == {"str", "int", "float", "bool", "date", "datetime"}

\* "Any": typing.Any;  "list", "dict": the bare builtin classes;
\* "unhashable": an annotation that is no type but an unhashable object, as in x: [int]
LeafKinds == Primitives \cup {"NoneType", "Any", "list", "dict", "unhashable"}

Leaves == {Ty(k) : k \in LeafKinds} \cup {Lit(<<"a", "b">>)}

\* typing flattens nested unions, Optional[None] is NoneType and typing refuses a
\* member that is no type: the members of a union are none of these
Members(S) == {t \in S : t.k \notin {"Union", "UnionType", "NoneType", "unhashable"}}

\* X | None is a types.UnionType for a class or a builtin alias X; for a typing
\* form such as Literal[...] it is typing.Optional[X] again
BarMembers(S) == {t \in Members(S) : t.k # "Literal"}

\* "List": typing.List, typing.List[T], list[T];  "Dict": typing.Dict, Dict[K, V],
\* dict[K, V] and dict[K] (the builtin alias does not count its arguments);
\* "Union": typing.Union[...] / typing.Optional[T];  "UnionType": X | Y;
\* "Tuple": tuple[T], a generic no rule names
Composites(S) ==
    {Gen("List", <<>>), Gen("Dict", <<>>), Gen("Dict", <<Tstr>>), Gen("Tuple", <<Tint>>),
     Gen("Union", <<Tint, Tstr>>), Gen("Union", <<Tint, Tstr, TNone>>),
     Gen("UnionType", <<Tint, Tstr>>)}
    \cup {Gen("List", <<t>>) : t \in S}
    \cup {Gen("Dict", <<Tstr, t>>) : t \in S}
    \cup {Gen("Union", <<t, TNone>>) : t \in Members(S)}
    \cup {Gen("Union", <<TNone, t>>) : t \in Members(S)}
    \cup {Gen("UnionType", <<t, TNone>>) : t \in BarMembers(S)}

RECURSIVE Types(_)
Types(d) == IF d = 0 THEN Leaves ELSE Types(d - 1) \cup Composites(Types(d - 1))

TypeSet == Types(MaxDepth)

----------------------------------------------------------------------------
(* tooling.py: Tool._infer_json_schema_type *)

Raise(e) == [raises |-> e]
IsRaise(r) == "raises" \in DOMAIN r

\* typing.get_origin
get_origin(t) ==
    CASE t.k = "Literal" -> "Literal"
      [] t.k = "Union" -> "Union"
      [] t.k = "UnionType" -> IF unionTypeIsUnion THEN "Union" ELSE "UnionType"
      [] t.k = "List" -> "list"
      [] t.k = "Dict" -> "dict"
      [] t.k = "Tuple" -> "tuple"
      [] OTHER -> "None"

\* typing.get_args
get_args(t) == IF t.k = "Literal" THEN t.vals ELSE t.args

\* hash(typ), which mapping.get(typ, ...) needs
Hashable(t) == t.k # "unhashable"

\* mapping.get(typ, "string") of the primitive table
MappingGet(t) ==
    CASE t.k = "str" -> "string"
      [] t.k = "int" -> "integer"
      [] t.k = "float" -> "number"
      [] t.k = "bool" -> "boolean"
      [] t.k = "date" -> "string"
      [] t.k = "datetime" -> "string"
      [] OTHER -> "string"

IsNotNone(a) == a.k # "NoneType"

\* get_args(typ)[0] if get_args(typ) else str
ListItemType(t) == IF get_args(t) # <<>> THEN get_args(t)[1] ELSE Tstr

RECURSIVE InferSchema(_)
InferSchema(t) ==
    LET origin == get_origin(t)
    IN  IF origin = "Literal"
        THEN [type |-> "string", enum |-> get_args(t)]
        ELSE IF origin = "Union"
        THEN LET non_none == SelectSeq(get_args(t), IsNotNone)
             IN  IF Len(non_none) = 1
                 THEN InferSchema(non_none[1])
                 ELSE [type |-> "string"]
        ELSE IF origin = "list"
        THEN LET items == InferSchema(ListItemType(t))
             IN  IF IsRaise(items) THEN items
                 ELSE [type |-> "array", items |-> items]
        ELSE IF origin = "dict"
        THEN IF get_args(t) # <<>> /\ Len(get_args(t)) < 2
             THEN Raise("IndexError")     \* get_args(typ)[1] of a one-element tuple
             ELSE LET ap == InferSchema(IF get_args(t) # <<>> THEN get_args(t)[2] ELSE Tstr)
                  IN  IF IsRaise(ap) THEN ap
                      ELSE [type |-> "object", additionalProperties |-> ap]
        ELSE IF ~Hashable(t)
        THEN Raise("TypeError")           \* mapping.get of an unhashable key
        ELSE [type |-> MappingGet(t)]

----------------------------------------------------------------------------
(* tooling.py: Tool.__init__, _build_param_schema, dict *)

\* A parameter's default: "empty" is inspect.Parameter.empty (no default),
\* "value" an ordinary default (3, None, "x"), "eq_any" a default whose __eq__
\* answers True to every comparison (unittest.mock.ANY)
Defaults == {"empty", "value", "eq_any"}

\* param.default == inspect.Parameter.empty : Python asks the default's __eq__
DefaultEqEmpty(default) == default = "empty" \/ default = "eq_any"

\* the annotations of the enumerated callables; <<>> is a parameter without one
Annotations == {<<>>, <<Tint>>, <<Gen("Union", <<Tstr, TNone>>)>>, <<Gen("List", <<Tint>>)>>,
                <<Gen("Dict", <<Tstr>>)>>}

ParamNames == {"a", "b", "c"}

Params == [name : ParamNames, ann : Annotations, default : Defaults]

\* parameter lists of up to MaxParams parameters with distinct names
ParamLists ==
    UNION {{ps \in [1..n -> Params] : \A i, j \in 1..n : i # j => ps[i].name # ps[j].name}
           : n \in 0..MaxParams}

\* a callable: its __name__, its docstring (None when it has none), its parameters
Funcs == [name : {"f"}, doc : {PyNone, PyStr("adds")}, params : ParamLists]

\* self.type_hints.get(name, str)
TypeHint(param) == IF param.ann = <<>> THEN Tstr ELSE param.ann[1]

build_param_schema(param) ==
    [name |-> param.name,
     schema |-> InferSchema(TypeHint(param)),
     required |-> DefaultEqEmpty(param.default)]

\* Tool(func, name, description); name and description are None when not given
ToolNew(f, name, description) ==
    LET parameters == [i \in DOMAIN f.params |-> build_param_schema(f.params[i])]
    IN  IF \E i \in DOMAIN parameters : IsRaise(parameters[i].schema)
        THEN parameters[CHOOSE i \in DOMAIN parameters :
                            /\ IsRaise(parameters[i].schema)
                            /\ \A j \in 1..(i - 1) : ~IsRaise(parameters[j].schema)].schema
        ELSE [func |-> f,
              name |-> PyOr(name, PyStr(f.name)),
              description |-> PyOr(description, f.doc),
              parameters |-> parameters]

IsRequired(p) == p.required

\* Tool.dict()
ToolDict(t) ==
    [type |-> "function",
     function |->
        [name |-> t.name,
         description |-> t.description,
         parameters |->
            [type |-> "object",
             properties |-> DictFrom([i \in DOMAIN t.parameters |->
                                        <<t.parameters[i].name, t.parameters[i].schema>>]),
             required |-> LET req == SelectSeq(t.parameters, IsRequired)
                          IN  [i \in DOMAIN req |-> req[i].name],
             additionalProperties |-> FALSE]]]


----------------------------------------------------------------------------
(* messages.py: BaseMessage, SystemMessage, UserMessage, ToolMessage,       *)
(* AIMessage.  They are pydantic models declared without a model            *)
(* configuration: construction validates the fields, assignment to a        *)
(* declared field stores the value unvalidated, and nothing is frozen.      *)

Ok(v) == [value |-> v]
NoValue == [none |-> TRUE]

MessageClasses == {"SystemMessage", "UserMessage", "ToolMessage", "AIMessage"}

\* role: Literal[...] of each class
RoleOf(cls) ==
    CASE cls = "SystemMessage" -> "system"
      [] cls = "UserMessage" -> "user"
      [] cls = "ToolMessage" -> "tool"
      [] cls = "AIMessage" -> "assistant"

\* the declared fields, the base class's first
FieldsOf(cls) ==
    CASE cls = "ToolMessage" -> <<"content", "role", "tool_call_id", "name">>
      [] cls = "AIMessage" -> <<"content", "role", "tool_calls">>
      [] OTHER -> <<"content", "role">>

FieldNames == {"content", "role", "tool_call_id", "name", "tool_calls"}

HasDefault(cls, f) == f \in {"content", "role", "tool_calls"}

FieldDefault(cls, f) ==
    CASE f = "content" -> PyStr("")
      [] f = "role" -> PyStr(RoleOf(cls))
      [] OTHER -> PyNone

IsStr(v) == v[1] = "str"
IsList(v) == v[1] = "list"

\* the field's declared type accepts v
FieldValid(cls, f, v) ==
    CASE f = "content" -> v = PyNone \/ IsStr(v)
      [] f = "role" -> v = PyStr(RoleOf(cls))
      [] f = "tool_calls" -> v = PyNone \/ IsList(v)
      [] OTHER -> IsStr(v)

DictGet(d, k) == d[CHOOSE i \in DOMAIN d : d[i][1] = k][2]

\* cls(**kw): kw is the dict of the keyword arguments given; a keyword that names
\* no declared field is ignored
MessageNew(cls, kw) ==
    LET fs == FieldsOf(cls)
        missing(f) == ~DictHas(kw, f) /\ ~HasDefault(cls, f)
        given(f) == IF DictHas(kw, f) THEN DictGet(kw, f) ELSE FieldDefault(cls, f)
    IN  IF \E i \in DOMAIN fs :
              missing(fs[i]) \/ (DictHas(kw, fs[i]) /\ ~FieldValid(cls, fs[i], given(fs[i])))
        THEN Raise("ValidationError")
        ELSE Ok([cls |-> cls, fields |-> [i \in DOMAIN fs |-> <<fs[i], given(fs[i])>>]])

\* message.field = v
MessageSetAttr(m, f, v) ==
    IF DictHas(m.fields, f)
    THEN Ok([m EXCEPT !.fields = DictSet(m.fields, f, v)])
    ELSE Raise("ValueError")

\* BaseMessage.dict(): dict(self), the fields in declared order
ToRecord(m) == m.fields

IsBaseMessage(o) == o.cls \in MessageClasses

----------------------------------------------------------------------------
(* llm.py: LLM *)

\* LLM.__init__: {tool.name: tool for tool in (tools or [])}
InitTools(ctor) == DictFrom([i \in DOMAIN ctor |-> <<ctor[i].name, ctor[i]>>])

\* register_tool that leaves a name already registered alone
register_tool_keep_first(reg, t) ==
    IF DictHas(reg, t.name) THEN reg ELSE Append(reg, <<t.name, t>>)

\* register_tool that drops the name's entry and adds the tool at the end
register_tool_move_to_end(reg, t) ==
    Append(SelectSeq(reg, LAMBDA e : e[1] # t.name), <<t.name, t>>)

\* LLM.register_tool
register_tool(reg, t) == DictSet(reg, t.name, t)

\* _build_payload without the test of self.tools: an empty registry gives tools = []
build_payload_always_tools(reg, messages) ==
    [model |-> "gpt-4o-mini",
     temperature |-> 0,
     messages |-> [i \in DOMAIN messages |-> ToRecord(messages[i])],
     tools |-> [i \in DOMAIN reg |-> ToolDict(reg[i][2])],
     tool_choice |-> "auto"]

\* LLM._build_payload
build_payload(reg, messages) ==
    LET payload == [model |-> "gpt-4o-mini",
                    temperature |-> 0,
                    messages |-> [i \in DOMAIN messages |-> ToRecord(messages[i])]]
    IN  IF reg # <<>>
        THEN payload @@ [tools |-> [i \in DOMAIN reg |-> ToolDict(reg[i][2])],
                         tool_choice |-> "auto"]
        ELSE payload

\* _convert_input without the test of the list's elements
convert_input_any_list(input) ==
    IF input.kind = "str"
    THEN Ok(<<MessageNew("UserMessage", <<<<"content", PyStr(input.s)>>>>).value>>)
    ELSE IF input.kind = "message"
    THEN Ok(<<input.items[1]>>)
    ELSE IF input.kind = "list"
    THEN Ok(input.items)
    ELSE Raise("ValueError")

\* LLM._convert_input.  An input is [kind, s, items]: kind "str" with the text s,
\* "message" with the message items[1], "list" or "tuple" with the elements items,
\* "other" for anything else (an int, None)
convert_input(input) ==
    IF input.kind = "str"
    THEN Ok(<<MessageNew("UserMessage", <<<<"content", PyStr(input.s)>>>>).value>>)
    ELSE IF input.kind = "message"
    THEN Ok(<<input.items[1]>>)
    ELSE IF input.kind = "list" /\ \A i \in DOMAIN input.items : IsBaseMessage(input.items[i])
    THEN Ok(input.items)
    ELSE Raise("ValueError")

\* invoke that reads response.choices[-1]
invoke_last_choice(reg, input, response) ==
    LET messages == convert_input(input)
    IN  IF IsRaise(messages)
        THEN [op |-> "invoke", input |-> input, response |-> response, request |-> NoValue,
              output |-> messages, apiCalls |-> 0, steps |-> <<"convert_input">>]
        ELSE
        LET payload == build_payload(reg, messages.value)
            output == IF ~response.ok THEN Raise("APIError")
                      ELSE IF response.choices = <<>> THEN Raise("IndexError")
                      ELSE LET message == response.choices[Len(response.choices)]
                           IN  MessageNew("AIMessage",
                                          <<<<"content", message.content>>,
                                            <<"tool_calls", message.tool_calls>>>>)
        IN  [op |-> "invoke", input |-> input, response |-> response, request |-> payload,
             output |-> output, apiCalls |-> 1,
             steps |-> <<"convert_input", "build_payload", "create">>]

\* LLM.invoke, the whole call: what it returned or raised, how often it called
\* client.chat.completions.create, with which payload, and the order of its steps.
\* response is what the API does with the request: it raises (ok = FALSE) or
\* answers with a list of choices
invoke(reg, input, response) ==
    LET messages == convert_input(input)
    IN  IF IsRaise(messages)
        THEN [op |-> "invoke", input |-> input, response |-> response, request |-> NoValue,
              output |-> messages, apiCalls |-> 0, steps |-> <<"convert_input">>]
        ELSE
        LET payload == build_payload(reg, messages.value)
            output == IF ~response.ok THEN Raise("APIError")
                      ELSE IF response.choices = <<>> THEN Raise("IndexError")
                      ELSE LET message == response.choices[1]
                           IN  MessageNew("AIMessage",
                                          <<<<"content", message.content>>,
                                            <<"tool_calls", message.tool_calls>>>>)
        IN  [op |-> "invoke", input |-> input, response |-> response, request |-> payload,
             output |-> output, apiCalls |-> 1,
             steps |-> <<"convert_input", "build_payload", "create">>]

----------------------------------------------------------------------------
(* The values the checked runs draw from *)

Pending == [pending |-> TRUE]
NoTool == [none |-> TRUE]
NoMessage == [cls |-> "none", fields |-> <<>>]
NoCall == [op |-> "none", input |-> NoValue, response |-> NoValue, request |-> NoValue,
           output |-> NoValue, apiCalls |-> 0, steps |-> <<>>]
NoMsgCall == [op |-> "none", output |-> NoValue]
NoFunc == [name |-> "f", doc |-> PyNone, params |-> <<>>]

SeqsUpTo(S, n) == UNION {[1..k -> S] : k \in 0..n}

\* def add(a: int, b: int): """adds"""   and   def add(c: Optional[str] = None)
FuncAdd == [name |-> "add", doc |-> PyStr("adds"),
            params |-> <<[name |-> "a", ann |-> <<Tint>>, default |-> "empty"],
                         [name |-> "b", ann |-> <<Tint>>, default |-> "empty"]>>]
FuncAddText == [name |-> "add", doc |-> PyNone,
                params |-> <<[name |-> "c", ann |-> <<Gen("Union", <<Tstr, TNone>>)>>,
                              default |-> "value"]>>]

\* two tools named "add" and one named "search"
ToolPool == {ToolNew(FuncAdd, PyNone, PyNone), ToolNew(FuncAddText, PyNone, PyNone),
             ToolNew(FuncAdd, PyStr("search"), PyNone)}

UserHi == MessageNew("UserMessage", <<<<"content", PyStr("hi")>>>>).value
SystemBrief == MessageNew("SystemMessage", <<<<"content", PyStr("be brief")>>>>).value
\* a plain dict shaped like a message: no BaseMessage
PlainDict == [cls |-> "dict", fields |-> ToRecord(UserHi)]

Inputs ==
    {[kind |-> "str", s |-> t, items |-> <<>>] : t \in {"hello", ""}}
    \cup {[kind |-> "message", s |-> "", items |-> <<m>>] : m \in {UserHi, SystemBrief}}
    \cup {[kind |-> "list", s |-> "", items |-> l] : l \in SeqsUpTo({UserHi, PlainDict}, MaxInputLen)}
    \cup {[kind |-> "list", s |-> "", items |-> <<SystemBrief, UserHi>>],
          [kind |-> "tuple", s |-> "", items |-> <<UserHi>>],
          [kind |-> "other", s |-> "", items |-> <<>>]}

MessageLists == {i.items : i \in {j \in Inputs : j.kind = "list" /\ ~IsRaise(convert_input(j))}}

ChoiceText == [content |-> PyStr("hi"), tool_calls |-> PyNone]
ChoiceCall == [content |-> PyNone, tool_calls |-> PyList(<<"call_1">>)]

\* the API raises, answers without a choice, or answers with one or two choices
Responses ==
    {[ok |-> FALSE, choices |-> <<>>]}
    \cup {[ok |-> TRUE, choices |-> c] :
            c \in {<<>>, <<ChoiceText>>, <<ChoiceCall>>, <<ChoiceText, ChoiceCall>>,
                   <<ChoiceCall, ChoiceText>>}}

Opt(f, S) == {<<>>} \cup {<<<<f, v>>>> : v \in S}

\* the keyword arguments of the enumerated constructions
Kwargs ==
    {c \o r \o i \o n \o t :
        c \in Opt("content", {PyNone, PyStr("hi")}),
        r \in Opt("role", {PyStr(RoleOf(k)) : k \in MessageClasses}),
        i \in Opt("tool_call_id", {PyStr("call_1")}),
        n \in Opt("name", {PyStr("search")}),
        t \in Opt("tool_calls", {PyNone, PyList(<<"call_1">>)})}

AttrValues == {PyNone, PyStr("hi"), PyStr("user"), PyStr("assistant"), PyList(<<>>)}

----------------------------------------------------------------------------
(* Schema inference called on one type after another *)

InitSchema ==
    /\ unionTypeIsUnion \in BOOLEAN
    /\ typ \in TypeSet
    /\ schema = Pending
    /\ pcS = "start"
    /\ func = NoFunc /\ tool = NoTool /\ descriptor = Pending /\ pcT = "idle"
    /\ tools = <<>> /\ registered = <<>> /\ call = NoCall
    /\ msg = NoMessage /\ built = NoMessage /\ msgCall = NoMsgCall

Infer ==
    /\ pcS = "start"
    /\ schema' = InferSchema(typ)
    /\ pcS' = "done"
    /\ UNCHANGED <<unionTypeIsUnion, typ, toolVars, llmVars, msgVars>>

NextType ==
    /\ pcS = "done"
    /\ typ' \in TypeSet
    /\ schema' = Pending
    /\ pcS' = "start"
    /\ UNCHANGED <<unionTypeIsUnion, toolVars, llmVars, msgVars>>

NextSchema == Infer \/ NextType

SpecSchema == InitSchema /\ [][NextSchema]_vars

----------------------------------------------------------------------------
(* A Tool built from a callable and exported *)

InitTool ==
    /\ func \in Funcs
    /\ tool = NoTool
    /\ descriptor = Pending
    /\ pcT = "start"
    /\ unionTypeIsUnion = FALSE /\ typ = Tstr /\ schema = Pending /\ pcS = "idle"
    /\ tools = <<>> /\ registered = <<>> /\ call = NoCall
    /\ msg = NoMessage /\ built = NoMessage /\ msgCall = NoMsgCall

FromCallable ==
    /\ pcT = "start"
    /\ \E name \in {PyNone, PyStr("g")}, description \in {PyNone, PyStr("sums")} :
          tool' = ToolNew(func, name, description)
    /\ pcT' = IF IsRaise(tool') THEN "failed" ELSE "built"
    /\ UNCHANGED <<func, descriptor, schemaVars, llmVars, msgVars>>

ToDescriptor ==
    /\ pcT \in {"built", "exported"}
    /\ descriptor' = ToolDict(tool)
    /\ pcT' = "exported"
    /\ UNCHANGED <<func, tool, schemaVars, llmVars, msgVars>>

NextTool == FromCallable \/ ToDescriptor

SpecTool == InitTool /\ [][NextTool]_vars

----------------------------------------------------------------------------
(* The client: registrations, payloads, normalisation, invoke *)

InitLLM ==
    /\ \E ctor \in SeqsUpTo(ToolPool, MaxRegistrations) :
          /\ tools = InitTools(ctor)
          /\ registered = ctor
    /\ call = NoCall
    /\ unionTypeIsUnion = FALSE /\ typ = Tstr /\ schema = Pending /\ pcS = "idle"
    /\ func = NoFunc /\ tool = NoTool /\ descriptor = Pending /\ pcT = "idle"
    /\ msg = NoMessage /\ built = NoMessage /\ msgCall = NoMsgCall

RegisterTool ==
    /\ Len(registered) < MaxRegistrations
    /\ \E t \in ToolPool :
          /\ tools' = register_tool(tools, t)
          /\ registered' = Append(registered, t)
          /\ call' = [NoCall EXCEPT !.op = "register_tool", !.input = t]
    /\ UNCHANGED <<schemaVars, toolVars, msgVars>>

BuildPayload ==
    /\ \E messages \in MessageLists :
          call' = [NoCall EXCEPT !.op = "build_payload", !.input = messages,
                                 !.output = build_payload(tools, messages)]
    /\ UNCHANGED <<tools, registered, schemaVars, toolVars, msgVars>>

Normalize ==
    /\ \E input \in Inputs :
          call' = [NoCall EXCEPT !.op = "convert_input", !.input = input,
                                 !.output = convert_input(input),
                                 !.steps = <<"convert_input">>]
    /\ UNCHANGED <<tools, registered, schemaVars, toolVars, msgVars>>

Invoke ==
    /\ \E input \in Inputs, response \in Responses :
          call' = invoke(tools, input, response)
    /\ UNCHANGED <<tools, registered, schemaVars, toolVars, msgVars>>

NextLLM == RegisterTool \/ BuildPayload \/ Normalize \/ Invoke

SpecLLM == InitLLM /\ [][NextLLM]_vars

----------------------------------------------------------------------------
(* One message: constructed, assigned to, exported *)

InitMsg ==
    /\ msg = NoMessage
    /\ built = NoMessage
    /\ msgCall = NoMsgCall
    /\ unionTypeIsUnion = FALSE /\ typ = Tstr /\ schema = Pending /\ pcS = "idle"
    /\ func = NoFunc /\ tool = NoTool /\ descriptor = Pending /\ pcT = "idle"
    /\ tools = <<>> /\ registered = <<>> /\ call = NoCall

Construct ==
    /\ msg = NoMessage
    /\ \E cls \in MessageClasses, kw \in Kwargs :
          LET r == MessageNew(cls, kw)
          IN  /\ msgCall' = [op |-> "construct", output |-> r]
              /\ msg' = IF IsRaise(r) THEN NoMessage ELSE r.value
              /\ built' = msg'
    /\ UNCHANGED <<schemaVars, toolVars, llmVars>>

SetAttr ==
    /\ msg # NoMessage
    /\ \E f \in FieldNames, v \in AttrValues :
          LET r == MessageSetAttr(msg, f, v)
          IN  /\ msgCall' = [op |-> "setattr", output |-> IF IsRaise(r) THEN r ELSE Ok(PyNone)]
              /\ msg' = IF IsRaise(r) THEN msg ELSE r.value
    /\ UNCHANGED <<built, schemaVars, toolVars, llmVars>>

MessageDict ==
    /\ msg # NoMessage
    /\ msgCall' = [op |-> "dict", output |-> Ok(ToRecord(msg))]
    /\ UNCHANGED <<msg, built, schemaVars, toolVars, llmVars>>

NextMsg == Construct \/ SetAttr \/ MessageDict

SpecMsg == InitMsg /\ [][NextMsg]_vars

----------------------------------------------------------------------------
(* Properties of the registry and the payload *)

Names(ts) == {ts[i].name : i \in DOMAIN ts}
FirstIdx(ts, n) == CHOOSE i \in DOMAIN ts : ts[i].name = n /\ \A j \in DOMAIN ts : ts[j].name = n => i <= j
LastIdx(ts, n) == CHOOSE i \in DOMAIN ts : ts[i].name = n /\ \A j \in DOMAIN ts : ts[j].name = n => j <= i

\* C1: the registry holds one entry per distinct tool name handed to the client,
\* and the entry of a name is the tool most recently registered under it
RegistryLastWins ==
    /\ \A i, j \in DOMAIN tools : i # j => tools[i][1] # tools[j][1]
    /\ {tools[i][1] : i \in DOMAIN tools} = Names(registered)
    /\ \A i \in DOMAIN tools : tools[i][2] = registered[LastIdx(registered, tools[i][1])]

\* two different tools of one name were registered: one entry, the second tool
SameNameTwice ==
    /\ call.op = "register_tool"
    /\ Len(registered) = 2
    /\ registered[1].name = registered[2].name
    /\ registered[1] # registered[2]
    /\ Len(tools) = 1
    /\ tools[1][2] = registered[2]

HasPayload == call.op = "build_payload" \/ (call.op = "invoke" /\ call.apiCalls > 0)
LastPayload == IF call.op = "build_payload" THEN call.output ELSE call.request

\* C2: a payload holds the key tools iff it holds the key tool_choice, both iff the
\* registry is non-empty at the call, and tool_choice is "auto" when present
PayloadToolsPair ==
    HasPayload =>
        /\ "tools" \in DOMAIN LastPayload <=> "tool_choice" \in DOMAIN LastPayload
        /\ "tools" \in DOMAIN LastPayload <=> tools # <<>>
        /\ "tool_choice" \in DOMAIN LastPayload => LastPayload.tool_choice = "auto"

\* a payload built on an empty registry: the three base keys and no other
PayloadWithoutTools ==
    /\ call.op = "build_payload"
    /\ tools = <<>>
    /\ DOMAIN call.output = {"model", "temperature", "messages"}

\* the indices of registered, ascending, that pick(i) keeps
Picked(pick(_)) == SelectSeq([i \in DOMAIN registered |-> i], pick)

OwnRegistration(i) == i = LastIdx(registered, registered[i].name)
FirstRegistration(i) == i = FirstIdx(registered, registered[i].name)

\* C10 as stated: the tools list holds the descriptors of the tools held, each
\* placed by its own registration (a replacing tool by its later registration)
PayloadToolsByOwnRegistration ==
    (HasPayload /\ tools # <<>>) =>
        LET own == Picked(OwnRegistration)
        IN  LastPayload.tools = [k \in DOMAIN own |-> ToolDict(registered[own[k]])]

\* C10 amended: the tools list holds one descriptor per tool held, placed by the
\* first registration of the tool's name: a replacing tool stands where the tool
\* it replaced stood
PayloadToolsByFirstRegistration ==
    (HasPayload /\ tools # <<>>) =>
        LET first == Picked(FirstRegistration)
        IN  LastPayload.tools =
                [k \in DOMAIN first |->
                    ToolDict(registered[LastIdx(registered, registered[first[k]].name)])]

\* a payload built after a tool replaced the first of two registered names
PayloadAfterReplacement ==
    /\ call.op = "build_payload"
    /\ Len(registered) = 3
    /\ registered[1].name = registered[3].name
    /\ registered[1] # registered[3]
    /\ registered[2].name # registered[1].name
    /\ Len(call.output.tools) = 2
    /\ call.output.tools[1] = ToolDict(registered[3])

----------------------------------------------------------------------------
(* Properties of normalisation and invoke *)

AllMessages(items) == \A i \in DOMAIN items : IsBaseMessage(items[i])

User(text) == [cls |-> "UserMessage",
               fields |-> <<<<"content", PyStr(text)>>, <<"role", PyStr("user")>>>>]

Assistant(content, tool_calls) ==
    [cls |-> "AIMessage",
     fields |-> <<<<"content", content>>, <<"role", PyStr("assistant")>>,
                  <<"tool_calls", tool_calls>>>>]

\* C4: text gives one User message of that text, a message gives that message
\* alone, a list of messages (the empty one too) is returned as it is, and every
\* other input (a list with a non-message, a tuple, any other object) raises
NormalizeShapes ==
    call.op = "convert_input" =>
        LET input == call.input
        IN  CASE input.kind = "str" -> call.output = Ok(<<User(input.s)>>)
              [] input.kind = "message" -> call.output = Ok(<<input.items[1]>>)
              [] input.kind = "list" /\ AllMessages(input.items) -> call.output = Ok(input.items)
              [] OTHER -> call.output = Raise("ValueError")

\* a list holding a message and a non-message was refused
MixedListRefused ==
    /\ call.op = "convert_input"
    /\ call.input.kind = "list"
    /\ \E i, j \in DOMAIN call.input.items :
          IsBaseMessage(call.input.items[i]) /\ ~IsBaseMessage(call.input.items[j])
    /\ IsRaise(call.output)

Accepted(input) ==
    input.kind \in {"str", "message"} \/ (input.kind = "list" /\ AllMessages(input.items))

\* C5: an invoke whose input is refused calls the API not at all; every other
\* invoke calls it once, after _convert_input and _build_payload, and raises when
\* the call raises or answers no choice, else returns the Assistant message of
\* the first choice's content and tool_calls
InvokeOneRoundTrip ==
    call.op = "invoke" =>
        IF ~Accepted(call.input)
        THEN /\ call.apiCalls = 0
             /\ "create" \notin Range(call.steps)
             /\ IsRaise(call.output)
        ELSE /\ call.apiCalls = 1
             /\ call.steps = <<"convert_input", "build_payload", "create">>
             /\ IF ~call.response.ok \/ call.response.choices = <<>>
                THEN IsRaise(call.output)
                ELSE call.output = Ok(Assistant(call.response.choices[1].content,
                                                call.response.choices[1].tool_calls))

\* an invoke answered with two different choices returned the first
FirstOfTwoChoices ==
    /\ call.op = "invoke"
    /\ call.apiCalls = 1
    /\ Len(call.response.choices) = 2
    /\ call.response.choices[1] # call.response.choices[2]
    /\ call.output = Ok(Assistant(call.response.choices[1].content,
                                  call.response.choices[1].tool_calls))

----------------------------------------------------------------------------
(* Properties of the schema converter *)

ParamNamesOf(ps) == [i \in DOMAIN ps |-> ps[i].name]
HasNoDefault(p) == p.default = "empty"

\* C3: the descriptor's required list is the names of the parameters without a
\* default, in declared order; properties has one key per parameter in declared
\* order; additionalProperties is false
RequiredExactlyNoDefault ==
    pcT = "exported" =>
        LET p == descriptor.function.parameters
        IN  /\ p.required = ParamNamesOf(SelectSeq(func.params, HasNoDefault))
            /\ DictKeys(p.properties) = ParamNamesOf(func.params)
            /\ p.additionalProperties = FALSE

\* the kinds no rule of the inference names
Unrecognized(t) == t.k \in {"NoneType", "Any", "unhashable", "Tuple"}

\* C6: the inference returns a schema with a type key for every type and raises
\* for none; a type no rule names gives exactly {type: "string"}
InferSchemaTotal ==
    pcS = "done" =>
        /\ ~IsRaise(schema)
        /\ "type" \in DOMAIN schema
        /\ Unrecognized(typ) => schema = [type |-> "string"]

\* C7: an optional "T or None", however written, gives the schema of T; a union
\* of two or more alternatives other than None gives {type: "string"}
OptionalAsInner ==
    (pcS = "done" /\ typ.k \in {"Union", "UnionType"}) =>
        LET alternatives == SelectSeq(typ.args, IsNotNone)
        IN  IF Len(alternatives) = 1
            THEN schema = InferSchema(alternatives[1])
            ELSE schema = [type |-> "string"]

\* C8: a list type gives {type: "array", items: schema of the element type}, the
\* schema of str when no element type is given; a dict type gives {type: "object",
\* additionalProperties: schema of the value type}, the schema of str when no
\* value type is given
SequenceAndMappingSchemas ==
    pcS = "done" =>
        /\ typ.k \in {"List", "list"} =>
              schema = [type |-> "array",
                        items |-> InferSchema(IF typ.args # <<>> THEN typ.args[1] ELSE Tstr)]
        /\ typ.k \in {"Dict", "dict"} =>
              schema = [type |-> "object",
                        additionalProperties |->
                            InferSchema(IF Len(typ.args) >= 2 THEN typ.args[2] ELSE Tstr)]

----------------------------------------------------------------------------
(* Properties of the messages *)

\* C9: a message's role is the tag of its class and the message is what its
\* constructor returned, whatever was done to it since; dict() reports those fields
MessageUnchanged ==
    msg # NoMessage =>
        /\ DictGet(msg.fields, "role") = PyStr(RoleOf(msg.cls))
        /\ msg = built
        /\ msgCall.op = "dict" => msgCall.output = Ok(built.fields)

====
